---- MODULE Spec2Model ----
(***************************************************************************)
(* Model of the motion-law engine of interactive_cam_design:               *)
(* getMotionFactors and calculateMotion of src/utils/motionMath.ts         *)
(* (the second, current definition in that file, lines 158-310),           *)
(* and of what uses it: the App component's motion and profile stages      *)
(* (src/unnamed/part_000), the cam synthesizer calculateCamProfile as its  *)
(* contract gives it, and the reference angle of drawFollower              *)
(* (src/components/CamVisualizer.tsx).                                     *)
(*                                                                         *)
(* Number representation.  The code works on IEEE doubles; the model uses  *)
(* integers.                                                               *)
(*   - An angle is an integer number of ticks.  A whole degree is DegTicks *)
(*     ticks and the code's tolerance epsilon (1e-10) is `epsilon' ticks;  *)
(*     the encoding is lexicographic: the part of a value below one degree *)
(*     is a sub-epsilon remainder, which is how a step of "180 degrees and *)
(*     half an epsilon" is written.  Whole degrees add exactly in doubles, *)
(*     so no rounding drift is modelled for them.                          *)
(*   - Normalised time u is a multiple of 1/UScale, rounded down.          *)
(*   - Factors, lifts s and the derivatives v, a, j are fixed-point with   *)
(*     Scale units per 1.0.  Math.sin / Math.cos are a table at the        *)
(*     multiples of 7.5 degrees, which are the angles pi*u and 2*pi*u of   *)
(*     the u grid.                                                         *)
(***************************************************************************)
EXTENDS Integers, Sequences, FiniteSets, TLC

\* ---------------------------------------------------------------- bounds
MaxSegs == 2
MaxStepK == 3
MaxStepTiny == 1
MaxPoints == 8
MaxCalls == 3
MaxEdits == 2
MaxFrames == 2

\* ------------------------------------------------------- number encoding
DegTicks == 1000
Scale == 1000
UScale == 24
epsilon == 2
FullTurn == 360 * DegTicks
PiFix == 3142

Min(a, b) == IF a < b THEN a ELSE b
Max(a, b) == IF a > b THEN a ELSE b

\* Math.pow(Math.PI, 2) and Math.pow(Math.PI, 3) in fixed point
PiPow2 == (PiFix * PiFix) \div Scale
PiPow3 == (PiPow2 * PiFix) \div Scale

\* Math.sin at k * 7.5 degrees, k in 0..12 (first quadrant), times Scale
SinQuarter == <<0, 131, 259, 383, 500, 609, 707, 793, 866, 924, 966, 991, 1000>>

\* Math.sin(k * 7.5 degrees) for k in 0..48
Sin(k) ==
  IF k <= 12 THEN SinQuarter[k + 1]
  ELSE IF k <= 24 THEN SinQuarter[24 - k + 1]
  ELSE IF k <= 36 THEN - SinQuarter[k - 24 + 1]
  ELSE - SinQuarter[48 - k + 1]

\* Math.cos(k * 7.5 degrees) for k in 0..48
Cos(k) == IF k <= 36 THEN Sin(k + 12) ELSE Sin(k - 36)

\* ----------------------------------------------------------- MotionType
DWELL == "Dwell"
UNIFORM == "Uniform"
PARABOLIC == "Parabolic"
HARMONIC == "Harmonic"
CYCLOIDAL == "Cycloidal"
POLYNOMIAL_345 == "Polynomial 3-4-5"
MotionType == {DWELL, UNIFORM, PARABOLIC, HARMONIC, CYCLOIDAL, POLYNOMIAL_345}

\* ---------------------------------------------------- getMotionFactors
\* ui is u in units of 1/UScale (0..UScale); the result is <<s, v, a, j>>
\* factors in fixed point.
UFix(ui) == (ui * Scale) \div UScale

\* slip: the second half written as 1 + 2(1-u)^2
ParabolicFactorsSignSlip(ui) ==
  LET u == UFix(ui)
      w == Scale - u
  IN IF 2 * ui <= UScale
       THEN <<(2 * u * u) \div Scale, 4 * u, 4 * Scale, 0>>
       ELSE <<Scale + (2 * w * w) \div Scale, 4 * w, - 4 * Scale, 0>>

ParabolicFactors(ui) ==
  LET u == UFix(ui)
      w == Scale - u
  IN IF 2 * ui <= UScale
       THEN <<(2 * u * u) \div Scale, 4 * u, 4 * Scale, 0>>
       ELSE <<Scale - (2 * w * w) \div Scale, 4 * w, - 4 * Scale, 0>>

\* slip: 0.5 * (1 + cos(pi u))
HarmonicFactorsSignSlip(ui) ==
  <<(Scale + Cos(ui)) \div 2,
    (PiFix * Sin(ui)) \div (2 * Scale),
    (PiPow2 * Cos(ui)) \div (2 * Scale),
    - ((PiPow3 * Sin(ui)) \div (2 * Scale))>>

HarmonicFactors(ui) ==
  <<(Scale - Cos(ui)) \div 2,
    (PiFix * Sin(ui)) \div (2 * Scale),
    (PiPow2 * Cos(ui)) \div (2 * Scale),
    - ((PiPow3 * Sin(ui)) \div (2 * Scale))>>

\* slip: acceleration factor written with cos instead of sin
CycloidalFactorsCosAccel(ui) ==
  <<UFix(ui) - (Sin(2 * ui) * Scale) \div (2 * PiFix),
    Scale - Cos(2 * ui),
    (2 * PiFix * Cos(2 * ui)) \div Scale,
    (4 * PiPow2 * Cos(2 * ui)) \div Scale>>

CycloidalFactors(ui) ==
  <<UFix(ui) - (Sin(2 * ui) * Scale) \div (2 * PiFix),
    Scale - Cos(2 * ui),
    (2 * PiFix * Sin(2 * ui)) \div Scale,
    (4 * PiPow2 * Cos(2 * ui)) \div Scale>>

\* slip: velocity factor 30u^2 - 60u^3 + 20u^4
Polynomial345FactorsCoeffSlip(ui) ==
  LET u == UFix(ui)
      u2 == (u * u) \div Scale
      u3 == (u2 * u) \div Scale
      u4 == (u3 * u) \div Scale
      u5 == (u4 * u) \div Scale
  IN <<10 * u3 - 15 * u4 + 6 * u5,
       30 * u2 - 60 * u3 + 20 * u4,
       60 * u - 180 * u2 + 120 * u3,
       60 * Scale - 360 * u + 360 * u2>>

Polynomial345Factors(ui) ==
  LET u == UFix(ui)
      u2 == (u * u) \div Scale
      u3 == (u2 * u) \div Scale
      u4 == (u3 * u) \div Scale
      u5 == (u4 * u) \div Scale
  IN <<10 * u3 - 15 * u4 + 6 * u5,
       30 * u2 - 60 * u3 + 30 * u4,
       60 * u - 180 * u2 + 120 * u3,
       60 * Scale - 360 * u + 360 * u2>>

\* slip: the Dwell case falls through to Uniform
getMotionFactorsDwellFallsThrough(type, ui) ==
  CASE type = DWELL -> <<UFix(ui), Scale, 0, 0>>
    [] type = UNIFORM -> <<UFix(ui), Scale, 0, 0>>
    [] type = PARABOLIC -> ParabolicFactors(ui)
    [] type = HARMONIC -> HarmonicFactors(ui)
    [] type = CYCLOIDAL -> CycloidalFactors(ui)
    [] type = POLYNOMIAL_345 -> Polynomial345Factors(ui)
    [] OTHER -> <<0, 0, 0, 0>>

getMotionFactors(type, ui) ==
  CASE type = DWELL -> <<0, 0, 0, 0>>
    [] type = UNIFORM -> <<UFix(ui), Scale, 0, 0>>
    [] type = PARABOLIC -> ParabolicFactors(ui)
    [] type = HARMONIC -> HarmonicFactors(ui)
    [] type = CYCLOIDAL -> CycloidalFactors(ui)
    [] type = POLYNOMIAL_345 -> Polynomial345Factors(ui)
    [] OTHER -> <<0, 0, 0, 0>>

\* ------------------------------------------------------ calculateMotion
\* Number(x) || 0 : a raw field is <<"n", value>> for a number and
\* <<"s", 0>> for a text that is not a number (Number gives NaN).
NumberOrZero(raw) == IF raw[1] = "n" THEN raw[2] ELSE 0

\* slip: the running lift is not advanced (cumulativeLift += deltaLift
\* left out)
RECURSIVE ProcessFromLiftNotCarried(_, _, _, _)
ProcessFromLiftNotCarried(segs, i, cumulativeAngle, cumulativeLift) ==
  IF i > Len(segs) THEN <<>>
  ELSE LET duration == NumberOrZero(segs[i].duration)
           deltaLift == NumberOrZero(segs[i].deltaLift)
       IN <<[type |-> segs[i].type,
             durationVal |-> duration,
             deltaLiftVal |-> deltaLift,
             startAngle |-> cumulativeAngle,
             endAngle |-> cumulativeAngle + duration,
             startLift |-> cumulativeLift,
             endLift |-> cumulativeLift + deltaLift]>>
          \o ProcessFromLiftNotCarried(segs, i + 1, cumulativeAngle + duration,
                                       cumulativeLift)

\* segments.map(...) with the running cumulativeAngle / cumulativeLift
RECURSIVE ProcessFrom(_, _, _, _)
ProcessFrom(segs, i, cumulativeAngle, cumulativeLift) ==
  IF i > Len(segs) THEN <<>>
  ELSE LET duration == NumberOrZero(segs[i].duration)
           deltaLift == NumberOrZero(segs[i].deltaLift)
       IN <<[type |-> segs[i].type,
             durationVal |-> duration,
             deltaLiftVal |-> deltaLift,
             startAngle |-> cumulativeAngle,
             endAngle |-> cumulativeAngle + duration,
             startLift |-> cumulativeLift,
             endLift |-> cumulativeLift + deltaLift]>>
          \o ProcessFrom(segs, i + 1, cumulativeAngle + duration,
                         cumulativeLift + deltaLift)

ProcessSegments(segs) == ProcessFrom(segs, 1, 0, 0)

FinalLift(psegs) == IF Len(psegs) > 0 THEN psegs[Len(psegs)].endLift ELSE 0

\* slip: the cursor also leaves a segment whose end angle is reached
RECURSIVE AdvanceCursorEager(_, _, _)
AdvanceCursorEager(psegs, idx, clampedTheta) ==
  IF idx < Len(psegs) /\ clampedTheta >= psegs[idx + 1].endAngle
    THEN AdvanceCursorEager(psegs, idx + 1, clampedTheta)
    ELSE idx

\* slip: the tolerance epsilon is left out of the cursor test
RECURSIVE AdvanceCursorNoTolerance(_, _, _)
AdvanceCursorNoTolerance(psegs, idx, clampedTheta) ==
  IF idx < Len(psegs) /\ clampedTheta > psegs[idx + 1].endAngle
    THEN AdvanceCursorNoTolerance(psegs, idx + 1, clampedTheta)
    ELSE idx

\* the inner while loop: first cursor position at or after idx whose
\* segment is not passed by clampedTheta (cursor is 0-based as in the code)
RECURSIVE AdvanceCursor(_, _, _)
AdvanceCursor(psegs, idx, clampedTheta) ==
  IF idx < Len(psegs) /\ clampedTheta > psegs[idx + 1].endAngle + epsilon
    THEN AdvanceCursor(psegs, idx + 1, clampedTheta)
    ELSE idx

\* slip: a tail point carries the end angle of the last segment
TailPointAtCycleEnd(psegs, clampedTheta) ==
  [theta |-> IF Len(psegs) > 0 THEN psegs[Len(psegs)].endAngle ELSE clampedTheta,
   s |-> FinalLift(psegs) * Scale, v |-> 0, a |-> 0, j |-> 0]

\* slip: the tail emits lift 0 instead of the final cumulative lift
TailPointZeroLift(psegs, clampedTheta) ==
  [theta |-> clampedTheta, s |-> 0, v |-> 0, a |-> 0, j |-> 0]

\* the point pushed when the cursor is past the last segment
TailPoint(psegs, clampedTheta) ==
  [theta |-> clampedTheta, s |-> FinalLift(psegs) * Scale,
   v |-> 0, a |-> 0, j |-> 0]

\* u = clamp((clampedTheta - startAngle) / beta, 0, 1), 0 when beta <= epsilon
NormalizedTime(segment, clampedTheta) ==
  LET beta == segment.durationVal
      u == IF beta > epsilon
             THEN ((clampedTheta - segment.startAngle) * UScale) \div beta
             ELSE 0
  IN Max(0, Min(UScale, u))

\* beta * (Math.PI / 180), in radians times DegTicks
BetaRad(beta) == (beta * PiFix) \div (180 * Scale)

\* slip: the guard on betaRad is left out; a quotient by zero is an
\* infinity, written Huge
SegmentPointUnguarded(segment, clampedTheta) ==
  LET Huge == 1000000000
      beta == segment.durationVal
      h == segment.deltaLiftVal
      fac == getMotionFactors(segment.type, NormalizedTime(segment, clampedTheta))
      betaRad == BetaRad(beta)
      betaRad2 == (betaRad * betaRad) \div DegTicks
      betaRad3 == (betaRad2 * betaRad) \div DegTicks
      Inf(x) == IF x > 0 THEN Huge ELSE IF x < 0 THEN - Huge ELSE 0
  IN [theta |-> clampedTheta,
      s |-> segment.startLift * Scale + h * fac[1],
      v |-> IF betaRad = 0 THEN Inf(h * fac[2])
            ELSE (((h * Scale * DegTicks) \div betaRad) * fac[2]) \div Scale,
      a |-> IF betaRad = 0 THEN Inf(h * fac[3])
            ELSE (((h * Scale * DegTicks) \div betaRad2) * fac[3]) \div Scale,
      j |-> IF betaRad = 0 THEN Inf(h * fac[4])
            ELSE (((h * Scale * DegTicks) \div betaRad3) * fac[4]) \div Scale]

\* slip: the displacement leaves out the segment's start lift
SegmentPointFromZero(segment, clampedTheta) ==
  LET beta == segment.durationVal
      h == segment.deltaLiftVal
      fac == getMotionFactors(segment.type, NormalizedTime(segment, clampedTheta))
      betaRad == BetaRad(beta)
      betaRad2 == (betaRad * betaRad) \div DegTicks
      betaRad3 == (betaRad2 * betaRad) \div DegTicks
  IN [theta |-> clampedTheta,
      s |-> h * fac[1],
      v |-> IF betaRad < epsilon THEN 0
            ELSE (((h * Scale * DegTicks) \div betaRad) * fac[2]) \div Scale,
      a |-> IF betaRad < epsilon THEN 0
            ELSE (((h * Scale * DegTicks) \div betaRad2) * fac[3]) \div Scale,
      j |-> IF betaRad < epsilon THEN 0
            ELSE (((h * Scale * DegTicks) \div betaRad3) * fac[4]) \div Scale]

\* the point pushed for the active segment
SegmentPoint(segment, clampedTheta) ==
  LET beta == segment.durationVal
      h == segment.deltaLiftVal
      fac == getMotionFactors(segment.type, NormalizedTime(segment, clampedTheta))
      betaRad == BetaRad(beta)
      betaRad2 == (betaRad * betaRad) \div DegTicks
      betaRad3 == (betaRad2 * betaRad) \div DegTicks
  IN [theta |-> clampedTheta,
      s |-> segment.startLift * Scale + h * fac[1],
      v |-> IF betaRad < epsilon THEN 0
            ELSE (((h * Scale * DegTicks) \div betaRad) * fac[2]) \div Scale,
      a |-> IF betaRad < epsilon THEN 0
            ELSE (((h * Scale * DegTicks) \div betaRad2) * fac[3]) \div Scale,
      j |-> IF betaRad < epsilon THEN 0
            ELSE (((h * Scale * DegTicks) \div betaRad3) * fac[4]) \div Scale]

\* slip: the loop test reads the clamped angle, which never passes 360
LoopCondOnClamped(th, step) == Min(th, FullTurn) <= FullTurn + epsilon

\* slip: a whole step of tolerance instead of epsilon
LoopCondStepTolerance(th, step) == th <= FullTurn + step

\* loop condition of the for statement (line 261)
LoopCond(th, step) == th <= FullTurn + epsilon

\* slip: the clamp is left out
ClampThetaIdentity(th) == th

\* Math.min(theta, 360) (line 262)
ClampTheta(th) == Min(th, FullTurn)

\* the point pushed by one iteration whose cursor stands at idx
SamplePoint(psegs, idx, clampedTheta) ==
  IF idx >= Len(psegs) THEN TailPoint(psegs, clampedTheta)
  ELSE SegmentPoint(psegs[idx + 1], clampedTheta)

\* the iterations first..last of the for loop (iteration n has loop value
\* (n - 1) * step), entered with the cursor at idx: the points they push
\* and the cursor they leave.  The range is halved so that the evaluation
\* stays shallow; the iterations are still taken in order.
RECURSIVE SampleRange(_, _, _, _, _)
SampleRange(psegs, step, first, last, idx) ==
  IF first > last THEN [points |-> <<>>, cursor |-> idx]
  ELSE IF first = last
    THEN LET clampedTheta == ClampTheta((first - 1) * step)
             cursor == AdvanceCursor(psegs, idx, clampedTheta)
         IN [points |-> <<SamplePoint(psegs, cursor, clampedTheta)>>,
             cursor |-> cursor]
    ELSE LET mid == (first + last) \div 2
             left == SampleRange(psegs, step, first, mid, idx)
             right == SampleRange(psegs, step, mid + 1, last, left.cursor)
         IN [points |-> left.points \o right.points, cursor |-> right.cursor]

\* number of loop values n * step, n = 0, 1, ..., that pass the loop test
IterationCount(step) ==
  Cardinality({n \in 0..((FullTurn + epsilon) \div step) : LoopCond(n * step, step)})

\* calculateMotion as a function of its arguments (stepSize > 0): the
\* returned sequence
calculateMotion(segs, step) ==
  SampleRange(ProcessSegments(segs), step, 1, IterationCount(step), 0).points

\* ------------------------------------------------------- the App component
\* FollowerType
TRANSLATING_ROLLER == "Translating Roller"
TRANSLATING_FLAT == "Translating Flat-Faced"
OSCILLATING_ROLLER == "Oscillating Roller"
OSCILLATING_FLAT == "Oscillating Flat-Faced"
FollowerType == {TRANSLATING_ROLLER, TRANSLATING_FLAT,
                 OSCILLATING_ROLLER, OSCILLATING_FLAT}

\* useState initial value of segments
InitialSegments ==
  <<[id |-> "1", type |-> DWELL, duration |-> <<"n", 20 * DegTicks>>,
     deltaLift |-> <<"n", 0>>],
    [id |-> "2", type |-> CYCLOIDAL, duration |-> <<"n", 60 * DegTicks>>,
     deltaLift |-> <<"n", 10>>],
    [id |-> "3", type |-> DWELL, duration |-> <<"n", 20 * DegTicks>>,
     deltaLift |-> <<"n", 0>>],
    [id |-> "4", type |-> CYCLOIDAL, duration |-> <<"n", 60 * DegTicks>>,
     deltaLift |-> <<"n", 20>>],
    [id |-> "5", type |-> DWELL, duration |-> <<"n", 20 * DegTicks>>,
     deltaLift |-> <<"n", 0>>],
    [id |-> "6", type |-> HARMONIC, duration |-> <<"n", 180 * DegTicks>>,
     deltaLift |-> <<"n", -30>>]>>

\* useState initial value of camParams
InitialCamParams ==
  [followerType |-> TRANSLATING_ROLLER,
   baseRadius |-> 40,
   followerRadius |-> 10,
   offset |-> 0,
   pivotDistance |-> 80,
   followerLength |-> 60,
   startAngleOffset |-> 0,
   rotation |-> "CW"]

\* const stepSize = 0.5 of the App's three calls of calculateMotion
AppStepSize == DegTicks \div 2

\* ------------------------------------------------- calculateCamProfile
\* The synthesizer (utils/camMath) is given by its contract.  A point of
\* its result keeps the kinematic row it was computed from and adds the
\* outline point, the pressure angle and the radius of curvature.  Values
\* that need a square root of a non-square, an inverse tangent or the
\* differentiation procedure are kept as the expression they are of.

\* floor of the square root
Isqrt(x) == CHOOSE r \in 0..Max(x, 0) : r * r <= Max(x, 0) /\ Max(x, 0) < (r + 1) * (r + 1)

\* prime circle radius Rp = sqrt((rb + r0)^2 - e^2), in fixed point
PrimeRadius(g) ==
  Isqrt((g.baseRadius + g.followerRadius) * (g.baseRadius + g.followerRadius)
        - g.offset * g.offset) * Scale

\* the contact point in the follower's home frame
HomePoint(p, g) ==
  CASE g.followerType = TRANSLATING_ROLLER ->
         [kind |-> "cartesian", a |-> PrimeRadius(g) + p.s, b |-> - g.offset * Scale,
          c |-> 0]
    [] g.followerType = TRANSLATING_FLAT ->
         [kind |-> "cartesian", a |-> g.baseRadius * Scale + p.s, b |-> p.v, c |-> 0]
    [] g.followerType = OSCILLATING_ROLLER ->
         \* arm angle acos(clamp(a / b)) + c at pivot distance r1, length r3
         [kind |-> "arm",
          a |-> g.pivotDistance * g.pivotDistance
                + g.followerLength * g.followerLength
                - (g.baseRadius + g.followerRadius) * (g.baseRadius + g.followerRadius),
          b |-> 2 * g.pivotDistance * g.followerLength,
          c |-> p.s]
    [] OTHER ->
         \* arm angle atan2(rb, sqrt(max(0, (a / b)^2 - rb^2))) + c
         [kind |-> "flat arm",
          a |-> g.pivotDistance * g.baseRadius,
          b |-> g.baseRadius + g.offset,
          c |-> p.s]

\* slip: the flat-faced follower takes the roller's formula
PressureAngleRollerForAll(p, g) ==
  CASE g.followerType \in {TRANSLATING_ROLLER, TRANSLATING_FLAT} ->
         [kind |-> "atan", num |-> p.v - g.offset * Scale,
          den |-> PrimeRadius(g) + p.s]
    [] OTHER -> [kind |-> "general", num |-> p.v, den |-> p.s]

\* pressure angle: 0 for the translating flat face; atan(num / den) for the
\* translating roller; the general procedure for the oscillating variants
PressureAngle(p, g) ==
  CASE g.followerType = TRANSLATING_FLAT -> [kind |-> "deg", num |-> 0, den |-> 1]
    [] g.followerType = TRANSLATING_ROLLER ->
         [kind |-> "atan", num |-> p.v - g.offset * Scale,
          den |-> PrimeRadius(g) + p.s]
    [] OTHER -> [kind |-> "general", num |-> p.v, den |-> p.s]

\* radius of curvature: rb + s + a for the translating flat face; the
\* general procedure (from s, v, a) for the others
RadiusOfCurvature(p, g) ==
  IF g.followerType = TRANSLATING_FLAT
    THEN [kind |-> "length", val |-> g.baseRadius * Scale + p.s + p.a]
    ELSE [kind |-> "general", val |-> 0]

\* one row of the profile: the home-frame point turned by -theta (CW) or
\* +theta (CCW) into the cam's frame
SynthesizePoint(p, g) ==
  [theta |-> p.theta, s |-> p.s, v |-> p.v, a |-> p.a, j |-> p.j,
   home |-> HomePoint(p, g),
   turn |-> IF g.rotation = "CW" THEN - p.theta ELSE p.theta,
   pressureAngle |-> PressureAngle(p, g),
   radiusOfCurvature |-> RadiusOfCurvature(p, g)]

\* synthesize(kinematicSequence, geometry): index for index
calculateCamProfile(mData, params) ==
  [k \in 1..Len(mData) |-> SynthesizePoint(mData[k], params)]

\* ----------------------------------------------------------------- state
VARIABLES
  segments,             \* argument: the caller's MotionSegment list
  stepSize,             \* argument: angular step, in ticks
  pc,                   \* "start", "loop", "done"; "kernel", "kdone"
  processedSegments,    \* local: segments with cumulative angles and lifts
  theta,                \* loop variable
  currentSegmentIndex,  \* cursor (0-based)
  points,               \* the sequence being built and returned
  evals,                \* history: per point, the cursor, law, u and factors
                        \* it was evaluated with (u = -1 for a tail point)
  log,                  \* history: arguments and result of every finished call
  ktype, ku, kfac,      \* a single call of getMotionFactors: arguments, result
  appSegments,          \* App state: segments
  camParams,            \* App state: camParams
  activeParams,         \* App state: activeParams
  motionData,           \* App state: motionData
  camData,              \* App state: camData
  motionDirty,          \* App state: motionDirty
  camDirty,             \* App state: camDirty
  mounted,              \* whether the mount effects have run
  replacedArray,        \* history: the array object that was the segments
                        \* state before the last edit, as it reads now
  edits,                \* history: number of edits of the segment list
  currentTheta,         \* App state: currentTheta, in ticks
  isPlaying,            \* App state: isPlaying
  frames,               \* the animation frame callbacks that are requested and
                        \* not cancelled, in request order: the rotation sense
                        \* each one's closure holds
  animationRef,         \* animationRef.current as a position in frames; 0 when
                        \* it is 0 or the id of a frame that ran or was cancelled
  phi0,                 \* drawFollower's local phi0, after its branch has run
  lift                  \* a call of getInterpolatedLift: its argument theta, the
                        \* two lookup indices and the value returned

engineVars == <<segments, stepSize, pc, processedSegments, theta,
                currentSegmentIndex, points, evals, log>>
kernelVars == <<ktype, ku, kfac>>
appVars == <<appSegments, camParams, activeParams, motionData, camData,
             motionDirty, camDirty, mounted, replacedArray, edits>>
drawVars == <<phi0, lift>>
animVars == <<currentTheta, isPlaying, frames, animationRef>>
vars == <<engineVars, kernelVars, appVars, drawVars, animVars>>

\* the locals of calculateMotion before its first statement
EngineAtEntry ==
  /\ pc = "start"
  /\ processedSegments = <<>>
  /\ theta = 0
  /\ currentSegmentIndex = 0
  /\ points = <<>>
  /\ evals = <<>>
  /\ log = <<>>

\* no call of getMotionFactors on its own
KernelIdle == ktype = DWELL /\ ku = 0 /\ kfac = <<>>

\* the useState / useRef initial values of the animation
AnimIdle ==
  /\ currentTheta = 0
  /\ isPlaying = FALSE
  /\ frames = <<>>
  /\ animationRef = 0

\* drawFollower has not run
DrawIdle ==
  /\ phi0 = [kind |-> "unset"]
  /\ lift = [theta |-> 0, idx1 |-> 0, idx2 |-> 0, value |-> 0]

\* the useState initial values, before any effect has run
AppAtConstruction ==
  /\ appSegments = InitialSegments
  /\ replacedArray = appSegments
  /\ edits = 0
  /\ camParams = InitialCamParams
  /\ activeParams = InitialCamParams
  /\ motionData = <<>>
  /\ camData = <<>>
  /\ motionDirty = FALSE
  /\ camDirty = FALSE
  /\ mounted = FALSE

\* durations: none, half a turn, a full turn; lifts: return, none, rise
Durations == {0, FullTurn \div 2, FullTurn}
Lifts == {-1, 0, 1}
RawSegmentOf(types) == [type : types,
                        duration : {<<"n", d>> : d \in Durations},
                        deltaLift : {<<"n", h>> : h \in Lifts}]
RawSegment == RawSegmentOf(MotionType)
SegLists == UNION {[1..n -> RawSegment] : n \in 0..MaxSegs}

\* steps: odd numbers of quarter turns (90 divides 360; 270 does not; 450
\* is above 360), and half a turn plus a sub-epsilon remainder
Steps == {(2 * k - 1) * (FullTurn \div 4) : k \in 1..MaxStepK}
         \cup {FullTurn \div 2 + t : t \in 1..MaxStepTiny}

\* the sampling grid does not read the law: the runs that vary the step
\* take their segments from two laws
GridLaws == {DWELL, UNIFORM}
GridSegLists == UNION {[1..n -> RawSegmentOf(GridLaws)] : n \in 0..MaxSegs}

\* edge values of the duration field: a text that is not a number, a
\* positive duration below epsilon, one just above epsilon, a full turn
\* less a sub-epsilon remainder, a full turn
EdgeDurations == {<<"s", 0>>, <<"n", 1>>, <<"n", epsilon + 1>>,
                  <<"n", FullTurn - 1>>, <<"n", FullTurn>>}
EdgeLaws == {UNIFORM, CYCLOIDAL}
EdgeSegLists ==
  UNION {[1..n -> [type : EdgeLaws,
                   duration : EdgeDurations,
                   deltaLift : {<<"n", 1>>}]] : n \in 0..MaxSegs}
\* a quarter turn, and half a turn plus a sub-epsilon remainder (the third
\* loop value overshoots 360 by epsilon)
EdgeSteps == {FullTurn \div 4, FullTurn \div 2 + 1}

\* the arguments of a call: every segment list sampled at a quarter turn,
\* a list over GridLaws sampled at any of the steps, or a list with edge
\* durations sampled at one of the edge steps
Init ==
  /\ \/ segments \in SegLists /\ stepSize = FullTurn \div 4
     \/ segments \in GridSegLists /\ stepSize \in Steps
     \/ segments \in EdgeSegLists /\ stepSize \in EdgeSteps
  /\ EngineAtEntry
  /\ KernelIdle
  /\ DrawIdle
  /\ AnimIdle
  /\ AppAtConstruction

\* slip: the cursor is kept from the previous call (declared outside the
\* function)
CallKeepsCursor ==
  /\ pc = "start"
  /\ processedSegments' = ProcessSegments(segments)
  /\ theta' = 0
  /\ currentSegmentIndex' = currentSegmentIndex
  /\ points' = <<>>
  /\ evals' = <<>>
  /\ pc' = "loop"
  /\ UNCHANGED <<segments, stepSize, log, kernelVars, drawVars, animVars, appVars>>

\* entry: lines 227-259
Call ==
  /\ pc = "start"
  /\ processedSegments' = ProcessSegments(segments)
  /\ theta' = 0
  /\ currentSegmentIndex' = 0
  /\ points' = <<>>
  /\ evals' = <<>>
  /\ pc' = "loop"
  /\ UNCHANGED <<segments, stepSize, log, kernelVars, drawVars, animVars, appVars>>

\* one iteration of the for loop: lines 261-307
LoopIter ==
  /\ pc = "loop"
  /\ LoopCond(theta, stepSize)
  /\ LET clampedTheta == ClampTheta(theta)
         idx == AdvanceCursor(processedSegments, currentSegmentIndex, clampedTheta)
     IN /\ currentSegmentIndex' = idx
        /\ IF idx >= Len(processedSegments)
             THEN /\ points' = Append(points, TailPoint(processedSegments, clampedTheta))
                  /\ evals' = Append(evals, [index |-> idx, type |-> "tail", u |-> -1,
                                             fac |-> <<0, 0, 0, 0>>])
             ELSE LET segment == processedSegments[idx + 1]
                      u == NormalizedTime(segment, clampedTheta)
                  IN /\ points' = Append(points, SegmentPoint(segment, clampedTheta))
                     /\ evals' = Append(evals, [index |-> idx, type |-> segment.type, u |-> u,
                                                fac |-> getMotionFactors(segment.type, u)])
  /\ theta' = theta + stepSize
  /\ UNCHANGED <<segments, stepSize, pc, processedSegments, log, kernelVars, drawVars, animVars, appVars>>

\* loop exit and return: lines 261, 309
Return ==
  /\ pc = "loop"
  /\ ~ LoopCond(theta, stepSize)
  /\ pc' = "done"
  /\ log' = Append(log, [segments |-> segments, stepSize |-> stepSize,
                          points |-> points])
  /\ UNCHANGED <<segments, stepSize, processedSegments, theta,
                 currentSegmentIndex, points, evals, kernelVars, drawVars, animVars, appVars>>

Next == Call \/ LoopIter \/ Return

Spec == Init /\ [][Next]_vars

\* the calls that vary the step or take edge durations
InitGrid ==
  /\ \/ segments \in GridSegLists /\ stepSize \in Steps
     \/ segments \in EdgeSegLists /\ stepSize \in EdgeSteps
  /\ EngineAtEntry
  /\ KernelIdle
  /\ DrawIdle
  /\ AnimIdle
  /\ AppAtConstruction

SpecGrid == InitGrid /\ [][Next]_vars

\* the call runs on one thread and nothing suspends it: a step that can be
\* taken is taken
LiveSegLists ==
  UNION {[1..n -> [type : GridLaws,
                   duration : {<<"n", d>> : d \in Durations},
                   deltaLift : {<<"n", 1>>}]] : n \in 0..MaxSegs}

InitLive ==
  /\ segments \in LiveSegLists
  /\ stepSize \in Steps
  /\ EngineAtEntry
  /\ KernelIdle
  /\ DrawIdle
  /\ AnimIdle
  /\ AppAtConstruction

SpecLive == InitLive /\ [][Next]_vars /\ WF_vars(Next)

\* ------------------------------------------- calls with any angular step
\* steps the contract excludes: zero and a negative quarter turn
NonPositiveSteps == {0, - (FullTurn \div 4)}

InitAnyStep ==
  /\ segments \in GridSegLists
  /\ stepSize \in Steps \cup NonPositiveSteps
  /\ EngineAtEntry
  /\ KernelIdle
  /\ DrawIdle
  /\ AnimIdle
  /\ AppAtConstruction

\* the same code; a run that never leaves the loop is followed for
\* MaxPoints iterations
NextAnyStep == Call \/ (LoopIter /\ Len(points) < MaxPoints) \/ Return

SpecAnyStep == InitAnyStep /\ [][NextAnyStep]_vars

\* ------------------------------------------------- one call after another
\* argument lists of the repeated calls: none, a full dwell, a rise over
\* half a turn, a rise and a return
RepeatSegLists ==
  {<<>>,
   <<[type |-> DWELL, duration |-> <<"n", FullTurn>>, deltaLift |-> <<"n", 0>>]>>,
   <<[type |-> UNIFORM, duration |-> <<"n", FullTurn \div 2>>,
      deltaLift |-> <<"n", 1>>]>>,
   <<[type |-> HARMONIC, duration |-> <<"n", FullTurn \div 2>>,
      deltaLift |-> <<"n", 1>>],
     [type |-> CYCLOIDAL, duration |-> <<"n", FullTurn \div 2>>,
      deltaLift |-> <<"n", -1>>]>>}
RepeatSteps == {FullTurn \div 4, 3 * (FullTurn \div 4)}

InitRepeat ==
  /\ segments \in RepeatSegLists
  /\ stepSize \in RepeatSteps
  /\ EngineAtEntry
  /\ KernelIdle
  /\ DrawIdle
  /\ AnimIdle
  /\ AppAtConstruction

\* the caller calls again, with any arguments; the locals of the finished
\* call are whatever it left
CallAgain ==
  /\ pc = "done"
  /\ Len(log) < MaxCalls
  /\ segments' \in RepeatSegLists
  /\ stepSize' \in RepeatSteps
  /\ pc' = "start"
  /\ UNCHANGED <<processedSegments, theta, currentSegmentIndex, points,
                 evals, log, kernelVars, drawVars, animVars, appVars>>

NextRepeat == Call \/ LoopIter \/ Return \/ CallAgain

SpecRepeat == InitRepeat /\ [][NextRepeat]_vars

\* ------------------------------------- getMotionFactors as a single call
InitFactors ==
  /\ segments = <<>>
  /\ stepSize = FullTurn \div 4
  /\ pc = "kernel"
  /\ processedSegments = <<>>
  /\ theta = 0
  /\ currentSegmentIndex = 0
  /\ points = <<>>
  /\ evals = <<>>
  /\ log = <<>>
  /\ ktype \in MotionType
  /\ ku \in 0..UScale
  /\ kfac = <<>>
  /\ AppAtConstruction
  /\ DrawIdle
  /\ AnimIdle

Evaluate ==
  /\ pc = "kernel"
  /\ kfac' = getMotionFactors(ktype, ku)
  /\ pc' = "kdone"
  /\ UNCHANGED <<segments, stepSize, processedSegments, theta,
                 currentSegmentIndex, points, evals, log, ktype, ku, appVars, drawVars, animVars>>

NextFactors == Evaluate

SpecFactors == InitFactors /\ [][NextFactors]_vars

\* ------------------------------------------------------------ the App
\* the follower types a camParams edit selects
ParamEdits == {TRANSLATING_FLAT, OSCILLATING_ROLLER}

InitApp ==
  /\ segments = <<>>
  /\ stepSize = AppStepSize
  /\ pc = "app"
  /\ processedSegments = <<>>
  /\ theta = 0
  /\ currentSegmentIndex = 0
  /\ points = <<>>
  /\ evals = <<>>
  /\ log = <<>>
  /\ KernelIdle
  /\ DrawIdle
  /\ AnimIdle
  /\ AppAtConstruction

\* ------------------------------------------------------ the animation
\* seq without its element at position k
RemoveAt(seq, k) == [i \in 1..(Len(seq) - 1) |-> IF i < k THEN seq[i] ELSE seq[i + 1]]

\* slip: the effect returns no cleanup; only the else branch cancels
AnimationEffectNoCleanup(playing, rotation) ==
  IF playing
    THEN /\ Len(frames) < MaxFrames
         /\ frames' = Append(frames, rotation)
         /\ animationRef' = Len(frames) + 1
    ELSE /\ frames' = IF animationRef # 0 THEN RemoveAt(frames, animationRef)
                      ELSE frames
         /\ animationRef' = 0

\* the effect on [isPlaying, activeParams.rotation] when a dependency has
\* changed: the cleanup of its previous run cancels the frame that
\* animationRef names, then the body runs with the new values (its else
\* branch cancels the same id again, which does nothing)
AnimationEffect(playing, rotation) ==
  LET kept == IF animationRef # 0 THEN RemoveAt(frames, animationRef) ELSE frames
  IN IF playing
       THEN /\ Len(kept) < MaxFrames
            /\ frames' = Append(kept, rotation)
            /\ animationRef' = Len(kept) + 1
       ELSE /\ frames' = kept
            /\ animationRef' = 0

\* slip: the wrap tests are strict
TickStrictWrap(prev, rotation) ==
  LET next == prev + (IF rotation = "CW" THEN 1 ELSE -1) * DegTicks
  IN IF next > FullTurn THEN next - FullTurn
     ELSE IF next < - FullTurn THEN next + FullTurn
     ELSE next

\* the updater passed to setCurrentTheta (speed 1.0)
Tick(prev, rotation) ==
  LET next == prev + (IF rotation = "CW" THEN 1 ELSE -1) * DegTicks
  IN IF next >= FullTurn THEN next - FullTurn
     ELSE IF next <= - FullTurn THEN next + FullTurn
     ELSE next

\* slip: the two effects that mark the inputs changed run after the mount
\* computation, so their writes of the flags win
MountDirtyEffectsLast ==
  /\ pc = "app"
  /\ ~ mounted
  /\ activeParams' = camParams
  /\ motionDirty' = TRUE
  /\ camDirty' = TRUE
  /\ mounted' = TRUE
  /\ UNCHANGED <<engineVars, kernelVars, drawVars, animVars, appSegments, replacedArray, edits, camParams>>
  /\ LET mData == calculateMotion(appSegments, AppStepSize)
         cData == calculateCamProfile(mData, camParams)
     IN /\ motionData' = mData
        /\ camData' = cData

\* the effects of the first render, in declaration order; their state
\* updates are applied together, the last write of a flag wins
Mount ==
  /\ pc = "app"
  /\ ~ mounted
  /\ activeParams' = camParams
  /\ motionDirty' = FALSE
  /\ camDirty' = FALSE
  /\ mounted' = TRUE
  /\ UNCHANGED <<engineVars, kernelVars, drawVars, animVars, appSegments, replacedArray, edits, camParams>>
  /\ LET mData == calculateMotion(appSegments, AppStepSize)
         cData == calculateCamProfile(mData, camParams)
     IN /\ motionData' = mData
        /\ camData' = cData

\* the random id of a new segment
NewIds == {"new"}

\* what an input of a row passes to updateSegment: another law, a cleared
\* duration field (Number('') is 0), another lift
SegmentFieldEdits == {<<"type", UNIFORM>>, <<"duration", <<"n", 0>>>>,
                      <<"deltaLift", <<"n", 5>>>>}

\* segments.reduce((sum, s) => sum + s.duration, 0)
RECURSIVE TotalAngle(_)
TotalAngle(segs) ==
  IF Len(segs) = 0 THEN 0
  ELSE TotalAngle(SubSeq(segs, 1, Len(segs) - 1))
       + NumberOrZero(segs[Len(segs)].duration)

\* addSegment, then the effect on [segments]
addSegment ==
  /\ pc = "app"
  /\ mounted
  /\ edits < MaxEdits
  /\ LET remainingAngle == Max(0, FullTurn - TotalAngle(appSegments))
         suggestDuration == IF remainingAngle > 0
                              THEN Min(90 * DegTicks, remainingAngle)
                              ELSE 90 * DegTicks
     IN \E id \in NewIds :
          appSegments' = Append(appSegments,
                                [id |-> id, type |-> DWELL,
                                 duration |-> <<"n", suggestDuration>>,
                                 deltaLift |-> <<"n", 0>>])
  /\ replacedArray' = appSegments
  /\ edits' = edits + 1
  /\ motionDirty' = TRUE
  /\ UNCHANGED <<engineVars, kernelVars, drawVars, animVars, camParams, activeParams, motionData,
                 camData, camDirty, mounted>>

\* updateSegment(index, field, value), then the effect on [segments]
updateSegment ==
  /\ pc = "app"
  /\ mounted
  /\ edits < MaxEdits
  /\ \E index \in {1, Len(appSegments)} : \E fv \in SegmentFieldEdits :
       /\ index \in 1..Len(appSegments)
       /\ appSegments' =
            [appSegments EXCEPT ![index] =
               CASE fv[1] = "type" -> [@ EXCEPT !.type = fv[2]]
                 [] fv[1] = "duration" -> [@ EXCEPT !.duration = fv[2]]
                 [] OTHER -> [@ EXCEPT !.deltaLift = fv[2]]]
  /\ replacedArray' = appSegments
  /\ edits' = edits + 1
  /\ motionDirty' = TRUE
  /\ UNCHANGED <<engineVars, kernelVars, drawVars, animVars, camParams, activeParams, motionData,
                 camData, camDirty, mounted>>

\* slip: the state array itself is spliced and passed to setSegments; the
\* state keeps its identity, so nothing is rendered again and the effect
\* on [segments] does not run
RemoveSegmentInPlace ==
  /\ pc = "app"
  /\ mounted
  /\ edits < MaxEdits
  /\ \E index \in {1, Len(appSegments)} :
       /\ index \in 1..Len(appSegments)
       /\ appSegments' = [k \in 1..(Len(appSegments) - 1) |->
                            IF k < index THEN appSegments[k] ELSE appSegments[k + 1]]
  /\ replacedArray' = appSegments'
  /\ edits' = edits + 1
  /\ UNCHANGED <<engineVars, kernelVars, drawVars, animVars, camParams, activeParams, motionData,
                 camData, motionDirty, camDirty, mounted>>

\* removeSegment(index) of the first or the last row, then the effect on
\* [segments]
RemoveSegment ==
  /\ pc = "app"
  /\ mounted
  /\ edits < MaxEdits
  /\ \E index \in {1, Len(appSegments)} :
       /\ index \in 1..Len(appSegments)
       /\ appSegments' = [k \in 1..(Len(appSegments) - 1) |->
                            IF k < index THEN appSegments[k] ELSE appSegments[k + 1]]
  /\ replacedArray' = appSegments
  /\ edits' = edits + 1
  /\ motionDirty' = TRUE
  /\ UNCHANGED <<engineVars, kernelVars, drawVars, animVars, camParams, activeParams, motionData,
                 camData, camDirty, mounted>>

\* slip: the effect on [camParams] is missing, the edit leaves camDirty
ChangeCamParamsKeepsClean ==
  /\ pc = "app"
  /\ mounted
  /\ \E value \in ParamEdits :
       camParams' = [camParams EXCEPT !.followerType = value]
  /\ UNCHANGED <<engineVars, kernelVars, drawVars, animVars, appSegments, replacedArray, edits, activeParams, motionData,
                 camData, motionDirty, camDirty, mounted>>

\* CamConfig handleChange('followerType', value), then the effect on
\* [camParams]
ChangeCamParams ==
  /\ pc = "app"
  /\ mounted
  /\ \E value \in ParamEdits :
       camParams' = [camParams EXCEPT !.followerType = value]
  /\ camDirty' = TRUE
  /\ UNCHANGED <<engineVars, kernelVars, drawVars, animVars, appSegments, replacedArray, edits, activeParams, motionData,
                 camData, motionDirty, mounted>>

\* slip: the cam stage is not marked out of date
handleGenerateMotionKeepsCamClean ==
  /\ pc = "app"
  /\ mounted
  /\ motionDirty' = FALSE
  /\ UNCHANGED <<engineVars, kernelVars, drawVars, animVars, appSegments, replacedArray, edits, camParams, activeParams,
                 camData, camDirty, mounted>>
  /\ motionData' = calculateMotion(appSegments, AppStepSize)

\* the Generate button is never disabled
handleGenerateMotion ==
  /\ pc = "app"
  /\ mounted
  /\ motionDirty' = FALSE
  /\ camDirty' = TRUE
  /\ UNCHANGED <<engineVars, kernelVars, drawVars, animVars, appSegments, replacedArray, edits, camParams, activeParams,
                 camData, mounted>>
  /\ motionData' = calculateMotion(appSegments, AppStepSize)

\* slip: the profile is always computed from a fresh motion law, which is
\* not stored
handleUpdateCamFreshMotion ==
  /\ pc = "app"
  /\ mounted
  /\ camDirty
  /\ camData' = calculateCamProfile(calculateMotion(appSegments, AppStepSize),
                                    camParams)
  /\ activeParams' = camParams
  /\ camDirty' = FALSE
  /\ UNCHANGED <<engineVars, kernelVars, drawVars, appSegments, replacedArray, edits, camParams, motionData,
                 motionDirty, mounted>>
  /\ IF camParams.rotation # activeParams.rotation
       THEN /\ AnimationEffect(isPlaying, camParams.rotation)
            /\ UNCHANGED <<currentTheta, isPlaying>>
       ELSE UNCHANGED animVars

\* slip: the motion law is regenerated on every synchronisation
handleUpdateCamAlwaysRegenerates ==
  /\ pc = "app"
  /\ mounted
  /\ camDirty
  /\ activeParams' = camParams
  /\ camDirty' = FALSE
  /\ UNCHANGED <<engineVars, kernelVars, drawVars, appSegments, replacedArray, edits, camParams, mounted>>
  /\ LET mData == calculateMotion(appSegments, AppStepSize)
     IN /\ motionData' = mData
        /\ motionDirty' = FALSE
        /\ camData' = calculateCamProfile(mData, camParams)
  /\ IF camParams.rotation # activeParams.rotation
       THEN /\ AnimationEffect(isPlaying, camParams.rotation)
            /\ UNCHANGED <<currentTheta, isPlaying>>
       ELSE UNCHANGED animVars

\* the Sync Profile button is disabled unless camDirty
handleUpdateCam ==
  /\ pc = "app"
  /\ mounted
  /\ camDirty
  /\ activeParams' = camParams
  /\ camDirty' = FALSE
  /\ UNCHANGED <<engineVars, kernelVars, drawVars, appSegments, replacedArray, edits, camParams, mounted>>
  /\ IF Len(motionData) = 0
       THEN LET mData == calculateMotion(appSegments, AppStepSize)
            IN /\ motionData' = mData
               /\ motionDirty' = FALSE
               /\ camData' = calculateCamProfile(mData, camParams)
       ELSE /\ UNCHANGED <<motionData, motionDirty>>
            /\ camData' = calculateCamProfile(motionData, camParams)
  /\ IF camParams.rotation # activeParams.rotation
       THEN /\ AnimationEffect(isPlaying, camParams.rotation)
            /\ UNCHANGED <<currentTheta, isPlaying>>
       ELSE UNCHANGED animVars

NextApp ==
  Mount \/ RemoveSegment \/ ChangeCamParams \/ handleGenerateMotion
    \/ handleUpdateCam

SpecApp == InitApp /\ [][NextApp]_vars

\* the edits of the two panels on their own, every edit handler included
NextEdit ==
  Mount \/ addSegment \/ updateSegment \/ RemoveSegment \/ ChangeCamParams

SpecEdit == InitApp /\ [][NextEdit]_vars

\* ---------------------------------------------- the animation controls
\* values of the range input (min 0, max 360, step 0.5)
SliderValues == {0, FullTurn \div 2 + DegTicks \div 2, FullTurn}

\* the play / pause button: onPlayChange(!isPlaying)
PlayPause ==
  /\ pc = "app"
  /\ mounted
  /\ isPlaying' = ~ isPlaying
  /\ AnimationEffect(~ isPlaying, activeParams.rotation)
  /\ UNCHANGED <<engineVars, kernelVars, drawVars, appVars, currentTheta>>

\* the reset button: onPlayChange(false); onThetaChange(0)
Reset ==
  /\ pc = "app"
  /\ mounted
  /\ isPlaying' = FALSE
  /\ currentTheta' = 0
  /\ IF isPlaying
       THEN AnimationEffect(FALSE, activeParams.rotation)
       ELSE UNCHANGED <<frames, animationRef>>
  /\ UNCHANGED <<engineVars, kernelVars, drawVars, appVars>>

\* the range input: onPlayChange(false); onThetaChange(Number(value))
Slider ==
  /\ pc = "app"
  /\ mounted
  /\ isPlaying' = FALSE
  /\ \E value \in SliderValues : currentTheta' = value
  /\ IF isPlaying
       THEN AnimationEffect(FALSE, activeParams.rotation)
       ELSE UNCHANGED <<frames, animationRef>>
  /\ UNCHANGED <<engineVars, kernelVars, drawVars, appVars>>

\* the browser runs the oldest requested frame: animate ticks when more
\* than 16 ms have passed since its last tick, and requests itself again
Frame ==
  /\ pc = "app"
  /\ Len(frames) > 0
  /\ \E elapsed \in BOOLEAN :
       currentTheta' = IF elapsed THEN Tick(currentTheta, Head(frames))
                       ELSE currentTheta
  /\ frames' = Append(Tail(frames), Head(frames))
  /\ animationRef' = Len(frames)
  /\ UNCHANGED <<engineVars, kernelVars, drawVars, appVars, isPlaying>>

\* CamConfig handleChange('rotation', dir), then the effect on [camParams]
ChangeRotation ==
  /\ pc = "app"
  /\ mounted
  /\ \E dir \in {"CW", "CCW"} :
       camParams' = [camParams EXCEPT !.rotation = dir]
  /\ camDirty' = TRUE
  /\ UNCHANGED <<engineVars, kernelVars, drawVars, animVars, appSegments, replacedArray,
                 edits, activeParams, motionData, camData, motionDirty, mounted>>

\* the App after mount.  The animation reads activeParams.rotation only;
\* the stored motion law and profile are the ones of the initial segments
\* sampled at a quarter turn, which keeps the states small.
InitAnim ==
  /\ segments = <<>>
  /\ stepSize = AppStepSize
  /\ pc = "app"
  /\ processedSegments = <<>>
  /\ theta = 0
  /\ currentSegmentIndex = 0
  /\ points = <<>>
  /\ evals = <<>>
  /\ log = <<>>
  /\ KernelIdle
  /\ DrawIdle
  /\ AnimIdle
  /\ appSegments = InitialSegments
  /\ replacedArray = appSegments
  /\ edits = 0
  /\ camParams = InitialCamParams
  /\ activeParams = InitialCamParams
  /\ motionData = calculateMotion(InitialSegments, FullTurn \div 4)
  /\ camData = calculateCamProfile(motionData, InitialCamParams)
  /\ motionDirty = FALSE
  /\ camDirty = FALSE
  /\ mounted = TRUE

NextAnim ==
  PlayPause \/ Reset \/ Slider \/ Frame \/ ChangeRotation \/ handleUpdateCam

SpecAnim == InitAnim /\ [][NextAnim]_vars

\* ------------------------------------------ handleUpdateCam as a single call
\* the values the handler's closure can hold: motionData empty (as in the
\* first render) or the motion law of a list, which need not be the
\* current one; either value of motionDirty; camParams of either sense and
\* every follower type
SyncSegLists == {InitialSegments, SubSeq(InitialSegments, 1, 2), <<>>}

SyncMotions == {<<>>} \cup {calculateMotion(l, AppStepSize) : l \in SyncSegLists}

SyncParams == {[InitialCamParams EXCEPT !.followerType = t, !.rotation = r] :
                 t \in FollowerType, r \in {"CW", "CCW"}}

InitSync ==
  /\ segments = <<>>
  /\ stepSize = AppStepSize
  /\ pc = "app"
  /\ processedSegments = <<>>
  /\ theta = 0
  /\ currentSegmentIndex = 0
  /\ points = <<>>
  /\ evals = <<>>
  /\ log = <<>>
  /\ KernelIdle
  /\ DrawIdle
  /\ AnimIdle
  /\ appSegments \in SyncSegLists
  /\ replacedArray = appSegments
  /\ edits = 0
  /\ camParams \in SyncParams
  /\ activeParams = InitialCamParams
  /\ motionData \in SyncMotions
  /\ camData = <<>>
  /\ motionDirty \in BOOLEAN
  /\ camDirty = TRUE
  /\ mounted = TRUE

NextSync == handleUpdateCam

SpecSync == InitSync /\ [][NextSync]_vars

\* ------------------------------------------- drawFollower's reference angle
\* A JavaScript number of this computation: a rational n / d (d > 0), an
\* infinity or NaN.  A result of acos, sqrt or atan2 is kept as the
\* expression it is of; it is a defined number.  All lengths tried are
\* non-negative, so every zero is +0.
NaN == [kind |-> "nan"]

PosInfinity == [kind |-> "inf"]

NegInfinity == [kind |-> "ninf"]

Rational(n, d) == [kind |-> "num", n |-> n, d |-> d]

\* x / y of two integers
Divide(x, y) ==
  IF y = 0
    THEN IF x = 0 THEN NaN ELSE IF x > 0 THEN PosInfinity ELSE NegInfinity
    ELSE IF y > 0 THEN Rational(x, y) ELSE Rational(- x, - y)

\* Math.min(c, x) with an integer c: NaN if an argument is NaN
MathMin(c, x) ==
  CASE x.kind = "nan" -> NaN
    [] x.kind = "inf" -> Rational(c, 1)
    [] x.kind = "ninf" -> NegInfinity
    [] OTHER -> IF c * x.d < x.n THEN Rational(c, 1) ELSE x

\* Math.max(c, x) with an integer c: NaN if an argument is NaN
MathMax(c, x) ==
  CASE x.kind = "nan" -> NaN
    [] x.kind = "inf" -> PosInfinity
    [] x.kind = "ninf" -> Rational(c, 1)
    [] OTHER -> IF c * x.d > x.n THEN Rational(c, 1) ELSE x

\* Math.acos: NaN for NaN and outside [-1, 1]
MathAcos(x) ==
  IF x.kind = "num" /\ - x.d <= x.n /\ x.n <= x.d
    THEN [kind |-> "acos", n |-> x.n, d |-> x.d]
    ELSE NaN

\* Math.sqrt: NaN for NaN and below 0, Infinity for Infinity
MathSqrt(x) ==
  CASE x.kind = "inf" -> PosInfinity
    [] x.kind = "num" /\ x.n >= 0 -> [kind |-> "sqrt", n |-> x.n, d |-> x.d]
    [] OTHER -> NaN

\* Math.atan2(y, x) with an integer y: NaN only if x is NaN
MathAtan2(y, x) ==
  IF x.kind = "nan" THEN NaN ELSE [kind |-> "atan2", y |-> y, x |-> x]

\* AE*AE - rb*rb
SquareMinusSquare(AE, rb) ==
  CASE AE.kind = "nan" -> NaN
    [] AE.kind \in {"inf", "ninf"} -> PosInfinity
    [] OTHER -> Rational(AE.n * AE.n - rb * rb * AE.d * AE.d, AE.d * AE.d)

\* phi0 of the Oscillating branch
ReferenceAngle(params) ==
  IF params.followerType = OSCILLATING_ROLLER
    THEN LET num == params.pivotDistance * params.pivotDistance
                    + params.followerLength * params.followerLength
                    - (params.baseRadius + params.followerRadius)
                      * (params.baseRadius + params.followerRadius)
             den == 2 * params.pivotDistance * params.followerLength
         IN MathAcos(MathMax(-1, MathMin(1, Divide(num, den))))
    ELSE LET AE == Divide(params.pivotDistance * params.baseRadius,
                          params.baseRadius + params.offset)
             DE == MathSqrt(MathMax(0, SquareMinusSquare(AE, params.baseRadius)))
         IN MathAtan2(params.baseRadius, DE)

\* geometries: every follower type; lengths that are zero, that make the
\* numerator zero and that do neither; offsets that cancel the base radius
\* and that do not
DrawGeometries ==
  [followerType : FollowerType,
   baseRadius : {0, 40},
   followerRadius : {0, 10},
   offset : {-40, 0, 10},
   pivotDistance : {0, 50, 100},
   followerLength : {0, 50, 60},
   startAngleOffset : {0},
   rotation : {"CW"}]

InitDraw ==
  /\ segments = <<>>
  /\ stepSize = AppStepSize
  /\ pc = "draw"
  /\ processedSegments = <<>>
  /\ theta = 0
  /\ currentSegmentIndex = 0
  /\ points = <<>>
  /\ evals = <<>>
  /\ log = <<>>
  /\ KernelIdle
  /\ DrawIdle
  /\ AnimIdle
  /\ appSegments = InitialSegments
  /\ replacedArray = appSegments
  /\ edits = 0
  /\ camParams = InitialCamParams
  /\ activeParams \in DrawGeometries
  /\ motionData = <<>>
  /\ camData = <<>>
  /\ motionDirty = FALSE
  /\ camDirty = FALSE
  /\ mounted = TRUE

\* drawFollower with params = activeParams; the Translating branch has no
\* phi0
drawFollower ==
  /\ pc = "draw"
  /\ phi0' = IF activeParams.followerType \in {OSCILLATING_ROLLER, OSCILLATING_FLAT}
               THEN ReferenceAngle(activeParams)
               ELSE phi0
  /\ pc' = "drawn"
  /\ UNCHANGED <<segments, stepSize, processedSegments, theta,
                 currentSegmentIndex, points, evals, log, kernelVars, appVars, animVars,
                 lift>>

NextDraw == drawFollower

SpecDraw == InitDraw /\ [][NextDraw]_vars

\* ------------------------------------------------- getInterpolatedLift
\* theta % 360 of JavaScript: the sign of the dividend
Remainder(x, m) == IF x >= 0 THEN x % m ELSE - ((- x) % m)

\* data[idx]?.s ?? 0 (idx is 0-based)
LiftAt(data, idx) == IF idx >= 0 /\ idx < Len(data) THEN data[idx + 1].s ELSE 0

\* slip: a negative remainder is not shifted into [0, 360)
getInterpolatedLiftNoShift(data, th) ==
  IF Len(data) = 0 THEN [idx1 |-> 0, idx2 |-> 0, value |-> 0]
  ELSE LET t == Remainder(th, FullTurn)
           num == t * (Len(data) - 1)
           idx1 == IF Len(data) = 1 THEN 0
                   ELSE IF num >= 0 THEN num \div FullTurn
                   ELSE - ((- num + FullTurn - 1) \div FullTurn)
           idx2 == Min(idx1 + 1, Len(data) - 1)
           ratio == IF Len(data) = 1 THEN 0
                    ELSE ((num - idx1 * FullTurn) * Scale) \div FullTurn
           s1 == LiftAt(data, idx1)
           s2 == LiftAt(data, idx2)
       IN [idx1 |-> idx1, idx2 |-> idx2,
           value |-> s1 + ((s2 - s1) * ratio) \div Scale]

\* the two lookup indices and the value returned.  step = 360 / (length -
\* 1) is Infinity for a single row, which makes indexFloat 0; otherwise
\* indexFloat = t / step = t * (length - 1) / 360, idx1 is its floor and
\* ratio its fraction (in units of 1 / Scale)
getInterpolatedLift(data, th) ==
  IF Len(data) = 0 THEN [idx1 |-> 0, idx2 |-> 0, value |-> 0]
  ELSE LET r == Remainder(th, FullTurn)
           t == IF r < 0 THEN r + FullTurn ELSE r
           num == t * (Len(data) - 1)
           idx1 == IF Len(data) = 1 THEN 0 ELSE num \div FullTurn
           idx2 == Min(idx1 + 1, Len(data) - 1)
           ratio == IF Len(data) = 1 THEN 0
                    ELSE ((num - idx1 * FullTurn) * Scale) \div FullTurn
           s1 == LiftAt(data, idx1)
           s2 == LiftAt(data, idx2)
       IN [idx1 |-> idx1, idx2 |-> idx2,
           value |-> s1 + ((s2 - s1) * ratio) \div Scale]

\* data: the profile of the App after mount (721 rows), profiles of motion
\* laws sampled at a quarter turn and at a full turn, and a single row
LiftData ==
  {calculateCamProfile(calculateMotion(InitialSegments, AppStepSize), InitialCamParams)}
  \cup {calculateCamProfile(calculateMotion(l, st), InitialCamParams) :
          l \in RepeatSegLists \cup {InitialSegments},
          st \in {FullTurn \div 4, FullTurn}}
  \cup {<<SynthesizePoint(TailPoint(<<>>, 0), InitialCamParams)>>}

\* angles: below 0, sample angles, angles between samples, 360 and above
LiftThetas ==
  {k * (FullTurn \div 8) : k \in -17..17}
  \cup {DegTicks \div 2, FullTurn - DegTicks \div 2, - DegTicks \div 2,
        FullTurn + DegTicks \div 2}

InitLift ==
  /\ segments = <<>>
  /\ stepSize = AppStepSize
  /\ pc = "lift"
  /\ processedSegments = <<>>
  /\ theta = 0
  /\ currentSegmentIndex = 0
  /\ points = <<>>
  /\ evals = <<>>
  /\ log = <<>>
  /\ KernelIdle
  /\ AnimIdle
  /\ phi0 = [kind |-> "unset"]
  /\ \E th \in LiftThetas : lift = [theta |-> th, idx1 |-> 0, idx2 |-> 0, value |-> 0]
  /\ appSegments = InitialSegments
  /\ replacedArray = appSegments
  /\ edits = 0
  /\ camParams = InitialCamParams
  /\ activeParams = InitialCamParams
  /\ motionData = <<>>
  /\ camData \in LiftData
  /\ motionDirty = FALSE
  /\ camDirty = FALSE
  /\ mounted = TRUE

\* getInterpolatedLift(theta) with data = camData
InterpolateLift ==
  /\ pc = "lift"
  /\ LET r == getInterpolatedLift(camData, lift.theta)
     IN lift' = [theta |-> lift.theta, idx1 |-> r.idx1, idx2 |-> r.idx2,
                 value |-> r.value]
  /\ pc' = "lifted"
  /\ UNCHANGED <<segments, stepSize, processedSegments, theta,
                 currentSegmentIndex, points, evals, log, kernelVars, appVars,
                 animVars, phi0>>

NextLift == InterpolateLift

SpecLift == InitLift /\ [][NextLift]_vars

\* ------------------------------------- calculateCamProfile as a single call
\* geometries: every follower type and rotation sense, two base radii,
\* with and without a roller, offsets on both sides
SynthGeometries ==
  [followerType : FollowerType,
   baseRadius : {20, 40},
   followerRadius : {0, 10},
   offset : {-10, 0, 10},
   pivotDistance : {80},
   followerLength : {60},
   startAngleOffset : {0},
   rotation : {"CW", "CCW"}]

\* kinematic sequences: the motion laws of a few lists at a quarter turn
SynthMotions == {calculateMotion(l, FullTurn \div 4) : l \in RepeatSegLists}

InitSynth ==
  /\ segments = <<>>
  /\ stepSize = AppStepSize
  /\ pc = "synth"
  /\ processedSegments = <<>>
  /\ theta = 0
  /\ currentSegmentIndex = 0
  /\ points = <<>>
  /\ evals = <<>>
  /\ log = <<>>
  /\ KernelIdle
  /\ DrawIdle
  /\ AnimIdle
  /\ appSegments = InitialSegments
  /\ replacedArray = appSegments
  /\ edits = 0
  /\ camParams \in SynthGeometries
  /\ activeParams = InitialCamParams
  /\ motionData \in SynthMotions
  /\ camData = <<>>
  /\ motionDirty = FALSE
  /\ camDirty = FALSE
  /\ mounted = FALSE

Synthesize ==
  /\ pc = "synth"
  /\ camData' = calculateCamProfile(motionData, camParams)
  /\ pc' = "synthdone"
  /\ UNCHANGED <<segments, stepSize, processedSegments, theta,
                 currentSegmentIndex, points, evals, log, kernelVars, drawVars, animVars,
                 appSegments, replacedArray, edits, camParams, activeParams, motionData,
                 motionDirty, camDirty, mounted>>

NextSynth == Synthesize

SpecSynth == InitSynth /\ [][NextSynth]_vars

\* ------------------------------------------------- vocabulary of the claims
Abs(x) == IF x < 0 THEN - x ELSE x
CeilDiv(a, b) == (a + b - 1) \div b

Started == pc \in {"loop", "done"}
Done == pc = "done"

RECURSIVE SumDuration(_)
SumDuration(segs) ==
  IF segs = <<>> THEN 0
  ELSE NumberOrZero(Head(segs).duration) + SumDuration(Tail(segs))

RECURSIVE NetLift(_)
NetLift(segs) ==
  IF segs = <<>> THEN 0
  ELSE NumberOrZero(Head(segs).deltaLift) + NetLift(Tail(segs))

AllPositive(segs) == \A k \in 1..Len(segs) : NumberOrZero(segs[k].duration) > 0

\* number of multiples of step in [0, 360 + epsilon]
SampleCount(step) == (FullTurn + epsilon) \div step + 1

CumLifts(psegs) == {0} \cup {psegs[k].endLift : k \in 1..Len(psegs)}
MinOf(S) == CHOOSE x \in S : \A y \in S : x <= y
MaxOf(S) == CHOOSE x \in S : \A y \in S : x >= y

ZeroEndLaw(type) == type \in {CYCLOIDAL, POLYNOMIAL_345}

FullDwell == <<[type |-> DWELL, duration |-> <<"n", FullTurn>>, deltaLift |-> <<"n", 0>>]>>

\* ------------------------------------------------------------------ C1
\* C1: for every positive angularStep and every segment list the returned
\* sequence has exactly ceil(360 / angularStep) + 1 points.
C1_PointCount ==
  Done => Len(points) = CeilDiv(FullTurn, stepSize) + 1

\* ------------------------------------------------------------------ C2
\* C2: the returned sequence covers [0, 360]: first theta = 0, last
\* theta = 360, consecutive points angularStep apart (within epsilon).
C2_CoversFullTurn ==
  Done =>
    /\ points[1].theta = 0
    /\ points[Len(points)].theta = FullTurn
    /\ \A i \in 1..(Len(points) - 1) :
         Abs(points[i + 1].theta - points[i].theta - stepSize) <= epsilon

\* ------------------------------------------------------------------ C3
\* C3: the theta values of the points are strictly increasing with index,
\* the final clamped point included.
C3_StrictlyIncreasing ==
  \A i \in 1..(Len(points) - 1) : points[i].theta < points[i + 1].theta

\* a finished run whose last loop value overshot 360 and was clamped
C3_Witness ==
  /\ Done
  /\ Len(points) >= 3
  /\ (Len(points) - 1) * stepSize > FullTurn
  /\ points[Len(points)].theta = FullTurn

\* ------------------------------------------------------------------ C4
\* C4: when the durations sum to less than 360 (empty list included), every
\* sample whose theta exceeds the last end angle by more than epsilon has
\* s = final cumulative lift and v = a = j = 0, and the finished run has a
\* point for every multiple of the step up to 360.
C4_DegenerateTail ==
  (Started /\ SumDuration(segments) < FullTurn) =>
    /\ \A i \in 1..Len(points) :
         points[i].theta > SumDuration(segments) + epsilon =>
           /\ points[i].s = NetLift(segments) * Scale
           /\ points[i].v = 0 /\ points[i].a = 0 /\ points[i].j = 0
    /\ Done =>
         /\ Len(points) = SampleCount(stepSize)
         /\ \A i \in 1..Len(points) :
              points[i].theta = Min((i - 1) * stepSize, FullTurn)

C4_Witness ==
  /\ Done
  /\ segments # <<>>
  /\ SumDuration(segments) > 0
  /\ SumDuration(segments) < FullTurn
  /\ NetLift(segments) # 0
  /\ Len(points) >= 3
  /\ points[Len(points)].theta > SumDuration(segments) + epsilon

\* ------------------------------------------------------------------ C5
\* C5 as stated: positive durations summing to 360, any laws, any lifts:
\* the sample at theta = 0 has s = 0, the sample at theta = 360 has
\* s = net lift.
C5_Original ==
  (Done /\ AllPositive(segments) /\ SumDuration(segments) = FullTurn) =>
    \A i \in 1..Len(points) :
      /\ points[i].theta = 0 => points[i].s = 0
      /\ points[i].theta = FullTurn => points[i].s = NetLift(segments) * Scale

\* C5 amended: when moreover the last duration is above epsilon, the sample
\* at theta = 0 has s = 0; the sample at theta = 360 has s = net lift when
\* the last segment is not a Dwell, and the last segment's start lift (net
\* lift minus its deltaLift) when it is a Dwell.
C5_EndpointLift ==
  ( /\ Done /\ AllPositive(segments) /\ SumDuration(segments) = FullTurn
    /\ NumberOrZero(segments[Len(segments)].duration) > epsilon ) =>
    LET last == segments[Len(segments)]
        lift360 == IF last.type = DWELL
                     THEN NetLift(segments) - NumberOrZero(last.deltaLift)
                     ELSE NetLift(segments)
    IN \A i \in 1..Len(points) :
         /\ points[i].theta = 0 => points[i].s = 0
         /\ points[i].theta = FullTurn => points[i].s = lift360 * Scale

C5_Witness ==
  /\ Done
  /\ Len(segments) = 2
  /\ AllPositive(segments)
  /\ SumDuration(segments) = FullTurn
  /\ NetLift(segments) # 0
  /\ segments[2].type # DWELL
  /\ points[1].theta = 0
  /\ points[Len(points)].theta = FullTurn

\* ------------------------------------------------------------------ C6
\* C6: every emitted displacement lies between the minimum and the maximum
\* of the cumulative lifts {0, endLift_0, endLift_1, ...}.
C6_LiftWithinRange ==
  Started =>
    \A i \in 1..Len(points) :
      /\ MinOf(CumLifts(processedSegments)) * Scale <= points[i].s
      /\ points[i].s <= MaxOf(CumLifts(processedSegments)) * Scale

\* a sample strictly inside a rise or return
C6_Witness ==
  /\ Started
  /\ \E i \in 1..Len(points) :
       /\ evals[i].u > 0 /\ evals[i].u < UScale
       /\ MinOf(CumLifts(processedSegments)) * Scale < points[i].s
       /\ points[i].s < MaxOf(CumLifts(processedSegments)) * Scale

\* ------------------------------------------------------------------ C7
\* C7 as stated: for all six laws the displacement factor is 0 at u = 0
\* and 1 at u = 1.
C7_Original ==
  pc = "kdone" =>
    /\ ku = 0 => kfac[1] = 0
    /\ ku = UScale => kfac[1] = Scale

\* C7 amended: for Uniform, Parabolic, Harmonic, Cycloidal and Polynomial
\* 3-4-5 the displacement factor is 0 at u = 0 and 1 at u = 1; for Dwell it
\* is 0 at both.
C7_BoundaryFactors ==
  pc = "kdone" =>
    /\ ku = 0 => kfac[1] = 0
    /\ ku = UScale => kfac[1] = (IF ktype = DWELL THEN 0 ELSE Scale)

C7_Witness ==
  /\ pc = "kdone"
  /\ ktype = HARMONIC
  /\ ku = UScale
  /\ kfac[1] = Scale

AdjacentCycloidal(psegs, k) ==
  /\ psegs[k].type = CYCLOIDAL /\ psegs[k + 1].type = CYCLOIDAL
  /\ psegs[k].durationVal > 0 /\ psegs[k + 1].durationVal > 0

\* C9 as stated: across the boundary of two adjacent Cycloidal segments
\* v, a and j at the end of the first equal, within tolerance, v, a and j
\* at the start of the second.
C9_Original ==
  Started =>
    \A k \in 1..(Len(processedSegments) - 1) :
      AdjacentCycloidal(processedSegments, k) =>
        LET e == SegmentPoint(processedSegments[k], processedSegments[k].endAngle)
            b == SegmentPoint(processedSegments[k + 1],
                              processedSegments[k + 1].startAngle)
        IN /\ Abs(e.v - b.v) <= 1
           /\ Abs(e.a - b.a) <= 1
           /\ Abs(e.j - b.j) <= 1

\* C9 amended: v and a are continuous (both 0) across the boundary of two
\* adjacent Cycloidal segments; j is not in general.
C9_VelocityAccelContinuous ==
  Started =>
    \A k \in 1..(Len(processedSegments) - 1) :
      AdjacentCycloidal(processedSegments, k) =>
        LET e == SegmentPoint(processedSegments[k], processedSegments[k].endAngle)
            b == SegmentPoint(processedSegments[k + 1],
                              processedSegments[k + 1].startAngle)
        IN /\ Abs(e.v - b.v) <= 1
           /\ Abs(e.a - b.a) <= 1

\* two lifting Cycloidal segments, with the boundary angle sampled
C9_Witness ==
  /\ Done
  /\ Len(processedSegments) = 2
  /\ AdjacentCycloidal(processedSegments, 1)
  /\ processedSegments[1].deltaLiftVal # 0
  /\ processedSegments[2].deltaLiftVal # 0
  /\ processedSegments[1].deltaLiftVal # processedSegments[2].deltaLiftVal
  /\ \E i \in 1..Len(points) : points[i].theta = processedSegments[1].endAngle

\* ------------------------------------------------------------------ C10
\* C10: a single Dwell of duration 360 and deltaLift 0 gives s = v = a =
\* j = 0 at every sample; every sample evaluated in a Dwell segment has
\* v = a = j = 0 and s equal to that segment's start lift.
C10_Dwell ==
  Started =>
    /\ segments = FullDwell =>
         \A i \in 1..Len(points) :
           /\ points[i].s = 0 /\ points[i].v = 0
           /\ points[i].a = 0 /\ points[i].j = 0
    /\ \A i \in 1..Len(points) :
         evals[i].type = DWELL =>
           /\ points[i].v = 0 /\ points[i].a = 0 /\ points[i].j = 0
           /\ points[i].s = processedSegments[evals[i].index + 1].startLift * Scale

C10_Witness ==
  /\ Done
  /\ segments = FullDwell
  /\ Len(points) = 5

\* ------------------------------------------------------------------ C11
\* C11: a run always completes: the sampling loop takes at most
\* floor((360 + epsilon) / angularStep) + 1 iterations and then returns,
\* and at every sample the cursor stops at or before the end of the list.
C11_Completes ==
  /\ [](Started =>
          /\ Len(points) <= SampleCount(stepSize)
          /\ currentSegmentIndex <= Len(processedSegments))
  /\ <>Done

\* a finished run whose cursor walked through the whole list
C11_Witness ==
  /\ Done
  /\ Len(processedSegments) = 2
  /\ currentSegmentIndex = 2
  /\ Len(points) = SampleCount(stepSize)
  /\ Len(points) >= 2

\* ------------------------------------------------------------------ C12
\* C12: a call with a non-positive angularStep ends in a failure: it never
\* enters the sampling loop, pushes no point and returns no sequence.
C12_NonPositiveStepFails ==
  (stepSize <= 0 /\ pc # "start") => (pc = "failed" /\ points = <<>>)

\* ------------------------------------------------------------------ C13
\* C13: every emitted theta lies in [0, 360] and is the clamped loop value,
\* also when the loop value overshoots 360 by up to epsilon; the cursor and
\* the normalized time of the sample are those of the clamped value.
C13_ThetaClamped ==
  \A i \in 1..Len(points) :
    /\ 0 <= points[i].theta /\ points[i].theta <= FullTurn
    /\ points[i].theta = Min((i - 1) * stepSize, FullTurn)
    /\ evals[i].index = AdvanceCursor(processedSegments, 0, points[i].theta)
    /\ evals[i].type # "tail" =>
         evals[i].u = NormalizedTime(processedSegments[evals[i].index + 1],
                                     points[i].theta)

\* the loop value overshoots 360 by epsilon and its sample is evaluated in a
\* segment that the unclamped value would already have passed
C13_Witness ==
  /\ Done
  /\ (Len(points) - 1) * stepSize > FullTurn
  /\ (Len(points) - 1) * stepSize <= FullTurn + epsilon
  /\ points[Len(points)].theta = FullTurn
  /\ evals[Len(points)].type # "tail"
  /\ (Len(points) - 1) * stepSize
       > processedSegments[evals[Len(points)].index + 1].endAngle + epsilon

\* ------------------------------------------------------------------ C14
\* C14: every sample evaluated in a segment has 0 <= u <= 1; in a segment
\* whose duration is below epsilon (zero, or a text that is not a number,
\* included) u = 0 and v = a = j = 0.
C14_NormalizedTimeBounded ==
  \A i \in 1..Len(points) :
    evals[i].type # "tail" =>
      /\ 0 <= evals[i].u /\ evals[i].u <= UScale
      /\ processedSegments[evals[i].index + 1].durationVal < epsilon =>
           /\ evals[i].u = 0
           /\ points[i].v = 0 /\ points[i].a = 0 /\ points[i].j = 0

\* a sample evaluated in a lifting segment whose duration is a text that
\* is not a number
C14_Witness ==
  /\ Started
  /\ \E i \in 1..Len(points) :
       /\ evals[i].type # "tail"
       /\ segments[evals[i].index + 1].duration[1] = "s"
       /\ processedSegments[evals[i].index + 1].durationVal = 0
       /\ processedSegments[evals[i].index + 1].deltaLiftVal # 0
       /\ points[i].v = 0

\* ------------------------------------------------------------------ C15
\* C15: preprocessing yields contiguous segments in the caller's order:
\* the first starts at angle 0 and lift 0, each ends at its start plus its
\* duration (deltaLift), and each next one starts where the previous ends.
C15_Contiguous ==
  Started =>
    LET p == processedSegments
    IN /\ Len(p) = Len(segments)
       /\ Len(p) > 0 => (p[1].startAngle = 0 /\ p[1].startLift = 0)
       /\ \A i \in 1..Len(p) :
            /\ p[i].type = segments[i].type
            /\ p[i].durationVal = NumberOrZero(segments[i].duration)
            /\ p[i].deltaLiftVal = NumberOrZero(segments[i].deltaLift)
            /\ p[i].endAngle = p[i].startAngle + p[i].durationVal
            /\ p[i].endLift = p[i].startLift + p[i].deltaLiftVal
            /\ i < Len(p) =>
                 /\ p[i + 1].startAngle = p[i].endAngle
                 /\ p[i + 1].startLift = p[i].endLift

\* two lifting segments, the longer one first, of different laws
C15_Witness ==
  /\ Started
  /\ Len(processedSegments) = 2
  /\ processedSegments[1].durationVal > processedSegments[2].durationVal
  /\ processedSegments[2].durationVal > 0
  /\ processedSegments[1].type # processedSegments[2].type
  /\ processedSegments[1].deltaLiftVal # 0
  /\ processedSegments[2].deltaLiftVal # 0
  /\ processedSegments[2].startLift = processedSegments[1].deltaLiftVal

ArgumentsKept ==
  pc \in {"start", "loop"} => (segments' = segments /\ stepSize' = stepSize)

\* no step changes a result that was returned
ResultsKept == \A i \in 1..Len(log) : log'[i] = log[i]

\* C16: calculateMotion is a pure batch function: while a call runs its
\* arguments stay as the caller gave them, a result once returned is never
\* changed by a later call, and two calls with the same arguments return
\* the same sequence whatever was computed in between.
C16_PureBatch ==
  /\ [][ArgumentsKept]_vars
  /\ [][ResultsKept]_vars
  /\ [](\A i, k \in 1..Len(log) :
          (log[i].segments = log[k].segments /\ log[i].stepSize = log[k].stepSize)
            => log[i].points = log[k].points)

\* a third call repeats the arguments of the first after a different
\* second call, and its result shows a rise
C16_Witness ==
  /\ Len(log) = 3
  /\ log[1].segments = log[3].segments
  /\ log[1].stepSize = log[3].stepSize
  /\ log[2].segments # log[1].segments
  /\ Len(log[1].segments) = 2
  /\ \E i \in 1..Len(log[3].points) : log[3].points[i].s # 0

\* ------------------------------------------------------------------ C18
\* after handleUpdateCam or the mount computation the profile has one row
\* per row of the motion sequence it was computed from (the stored
\* motionData), with that row's theta and s
ProfileAligned ==
  (handleUpdateCam \/ Mount) =>
    /\ Len(camData') = Len(motionData')
    /\ \A k \in 1..Len(camData') :
         /\ camData'[k].theta = motionData'[k].theta
         /\ camData'[k].s = motionData'[k].s

\* C18: the cam profile is index-aligned with the kinematic sequence it
\* was computed from: after handleUpdateCam or the mount computation
\* camData has the length of that sequence and row k carries its theta
\* and s.
C18_IndexAligned == [][ProfileAligned]_vars

\* the profile was synchronised for another follower type while the motion
\* law was out of date
C18_Witness ==
  /\ mounted
  /\ motionDirty
  /\ ~ camDirty
  /\ activeParams.followerType # InitialCamParams.followerType
  /\ Len(camData) = Len(motionData)
  /\ Len(camData) > 2
  /\ \E k \in 1..Len(camData) : camData[k].s # 0 /\ camData[k].s = motionData[k].s

\* ------------------------------------------------------------------ C19
\* C19: for the Translating Flat-Faced follower the synthesized pressure
\* angle is 0 at every sampled angle, for every geometry and every motion
\* sequence.
C19_FlatPressureAngleZero ==
  (pc = "synthdone" /\ camParams.followerType = TRANSLATING_FLAT) =>
    /\ Len(camData) = Len(motionData)
    /\ \A k \in 1..Len(camData) :
         camData[k].pressureAngle = [kind |-> "deg", num |-> 0, den |-> 1]

\* a flat-faced profile over a sequence with a moving sample and an offset
C19_Witness ==
  /\ pc = "synthdone"
  /\ camParams.followerType = TRANSLATING_FLAT
  /\ camParams.offset # 0
  /\ Len(camData) = 5
  /\ \E k \in 1..Len(camData) : camData[k].v # 0 /\ camData[k].s # 0

\* C20: the oscillating follower's reference angle phi0 is always a defined
\* number, never NaN, also for degenerate geometry with a zero denominator
\* (pivotDistance = 0 or followerLength = 0 for the roller variant,
\* baseRadius + offset = 0 for the flat variant).
C20_Phi0Defined ==
  (pc = "drawn"
     /\ activeParams.followerType \in {OSCILLATING_ROLLER, OSCILLATING_FLAT})
    => phi0.kind \in {"acos", "atan2"}

\* ------------------------------------------------------------------ C21
\* 0-based position of the first segment in list order whose endAngle +
\* epsilon is not below th; Len(psegs) if there is none
FirstCover(psegs, th) ==
  MinOf({i \in 0..(Len(psegs) - 1) : psegs[i + 1].endAngle + epsilon >= th}
        \cup {Len(psegs)})

\* the cursor of every sample is the first cover of its angle, never below
\* the cursor of the sample before, and the active segment spans the angle
CursorSelection ==
  \A k \in 1..Len(points) :
    LET idx == evals[k].index
        th == points[k].theta
    IN /\ idx = FirstCover(processedSegments, th)
       /\ k > 1 => evals[k - 1].index <= idx
       /\ idx < Len(processedSegments) =>
            /\ processedSegments[idx + 1].startAngle <= th
            /\ th <= processedSegments[idx + 1].endAngle + epsilon

LiftAtEnd(psegs, i) == SegmentPoint(psegs[i], psegs[i].endAngle).s

LiftAtStart(psegs, i) == SegmentPoint(psegs[i], psegs[i].startAngle).s

AdjacentPositive(psegs, i) ==
  psegs[i].durationVal > 0 /\ psegs[i + 1].durationVal > 0

\* C22 as stated: for adjacent segments i and i+1 with positive durations,
\* any law kinds and any deltaLifts, the s of segment i at its end angle
\* equals endLift_i, which is the s of segment i+1 at its start.
C22_Original ==
  Started =>
    \A i \in 1..(Len(processedSegments) - 1) :
      AdjacentPositive(processedSegments, i) =>
        /\ LiftAtEnd(processedSegments, i) = processedSegments[i].endLift * Scale
        /\ LiftAtStart(processedSegments, i + 1) = processedSegments[i].endLift * Scale

\* C22 amended: for adjacent segments i and i+1 with positive durations,
\* the s of segment i+1 at its start equals endLift_i for any law kinds and
\* deltaLifts; the s of segment i at its end angle equals endLift_i when
\* segment i has deltaLift 0, or is not a Dwell and has a duration above
\* epsilon; it equals startLift_i when segment i is a Dwell or has a
\* duration of at most epsilon.
C22_DisplacementContinuous ==
  Started =>
    \A i \in 1..(Len(processedSegments) - 1) :
      AdjacentPositive(processedSegments, i) =>
        /\ LiftAtStart(processedSegments, i + 1) = processedSegments[i].endLift * Scale
        /\ ( \/ processedSegments[i].deltaLiftVal = 0
             \/ /\ processedSegments[i].type # DWELL
                /\ processedSegments[i].durationVal > epsilon )
             => LiftAtEnd(processedSegments, i) = processedSegments[i].endLift * Scale
        /\ ( \/ processedSegments[i].type = DWELL
             \/ processedSegments[i].durationVal <= epsilon )
             => LiftAtEnd(processedSegments, i) = processedSegments[i].startLift * Scale

\* a finished run over a lifting Harmonic segment followed by a returning
\* Cycloidal one, with the boundary sampled at the first segment's end lift
C22_Witness ==
  /\ Done
  /\ Len(processedSegments) = 2
  /\ AdjacentPositive(processedSegments, 1)
  /\ processedSegments[1].type = HARMONIC
  /\ processedSegments[2].type = CYCLOIDAL
  /\ processedSegments[1].deltaLiftVal = 1
  /\ processedSegments[2].deltaLiftVal = -1
  /\ \E k \in 1..Len(points) :
       /\ points[k].theta = processedSegments[1].endAngle
       /\ points[k].s = processedSegments[1].endLift * Scale

\* ------------------------------------------------------------------ C23
\* the state the mount step leaves
MountEffect ==
  Mount =>
    /\ motionDirty' = FALSE
    /\ camDirty' = FALSE
    /\ motionData' = calculateMotion(InitialSegments, AppStepSize)
    /\ camData' = calculateCamProfile(motionData', InitialCamParams)

\* C23: after the component mounts and all mount effects have run,
\* motionDirty and camDirty are false, motionData is the motion law of the
\* initial segments at step 0.5 and camData is the profile computed from
\* it with the initial camParams; the effects that set the dirty flags
\* leave no flag true after mount.
C23_MountClean == [][MountEffect]_vars

\* the state right after mount: both flags clear, a motion law from 0 to
\* 360 and a profile of the same length
C23_Witness ==
  /\ mounted
  /\ ~ motionDirty
  /\ ~ camDirty
  /\ appSegments = InitialSegments
  /\ camParams = InitialCamParams
  /\ Len(motionData) = SampleCount(AppStepSize)
  /\ motionData[Len(motionData)].theta = FullTurn
  /\ Len(camData) = Len(motionData)

\* ------------------------------------------------------------------ C24
\* the state a motion regeneration leaves
GenerateEffect ==
  handleGenerateMotion =>
    /\ motionData' = calculateMotion(appSegments, AppStepSize)
    /\ motionDirty' = FALSE
    /\ camDirty' = TRUE
    /\ UNCHANGED <<camData, camParams, activeParams>>

\* after mount, camDirty is cleared by handleUpdateCam only
ClearedBySyncOnly ==
  (mounted /\ camDirty /\ ~ camDirty') => handleUpdateCam

\* C24: handleGenerateMotion recomputes motionData from the current
\* segments (step 0.5), sets motionDirty to false and camDirty to true and
\* leaves camData, camParams and activeParams unchanged; the cam stage
\* stays marked out of date until handleUpdateCam runs.
C24_GenerateMarksCamStale == [][GenerateEffect /\ ClearedBySyncOnly]_vars

\* a regeneration after a segment edit, on a synchronised profile: the
\* motion law is the one of the edited list and the profile is still the
\* one of the initial list
C24_Witness ==
  /\ mounted
  /\ ~ motionDirty
  /\ camDirty
  /\ appSegments # InitialSegments
  /\ camParams = activeParams
  /\ motionData = calculateMotion(appSegments, AppStepSize)
  /\ camData = calculateCamProfile(calculateMotion(InitialSegments, AppStepSize),
                                   InitialCamParams)

\* ------------------------------------------------------------------ C26
\* C26: in every state reached after mount by segment edits, camParams
\* edits, handleGenerateMotion and handleUpdateCam: whenever camDirty is
\* false, camData is the profile computed from the stored motionData with
\* the current camParams and activeParams equals camParams; whenever
\* motionDirty is false, motionData is the motion law of the current
\* segments.
C26_FlagsMeanUpToDate ==
  mounted =>
    /\ ~ camDirty =>
         /\ activeParams = camParams
         /\ camData = calculateCamProfile(motionData, camParams)
    /\ ~ motionDirty =>
         motionData = calculateMotion(appSegments, AppStepSize)

\* both stages were run again after an edit of the segments and of the
\* follower type, and both flags are clear
C26_Witness ==
  /\ mounted
  /\ ~ camDirty
  /\ ~ motionDirty
  /\ appSegments # InitialSegments
  /\ camParams.followerType # InitialCamParams.followerType
  /\ Len(camData) = Len(motionData)
  /\ camData[1].pressureAngle = PressureAngle(motionData[1], camParams)

\* ------------------------------------------------------------------ C27
\* the state a synchronisation leaves
SyncEffect ==
  handleUpdateCam =>
    /\ camDirty' = FALSE
    /\ activeParams' = camParams
    /\ IF Len(motionData) = 0
         THEN /\ motionData' = calculateMotion(appSegments, AppStepSize)
              /\ motionDirty' = FALSE
              /\ camData' = calculateCamProfile(motionData', camParams)
         ELSE /\ camData' = calculateCamProfile(motionData, camParams)
              /\ UNCHANGED <<motionData, motionDirty>>

\* C27: handleUpdateCam regenerates the motion law only when motionData is
\* empty (then it computes motion from the current segments, clears
\* motionDirty and synthesizes from that motion); when motionData is not
\* empty it synthesizes from the stored motionData and leaves motionData
\* and motionDirty unchanged, even if motionDirty is true; in both cases
\* it ends with camDirty false and activeParams a copy of camParams.
C27_SyncRegeneratesOnlyIfEmpty == [][SyncEffect]_vars

\* after a synchronisation entered with a stored motion law that is not
\* the one of the current segments: motionDirty is still true and the
\* stored law was kept
C27_Witness ==
  /\ mounted
  /\ ~ camDirty
  /\ motionDirty
  /\ activeParams = camParams
  /\ activeParams # InitialCamParams
  /\ Len(motionData) > 0
  /\ motionData # calculateMotion(appSegments, AppStepSize)
  /\ camData = calculateCamProfile(motionData, camParams)

\* ------------------------------------------------------------------ C25
\* an edit of the segment list, by any of the three handlers
SegmentEditEffect ==
  (addSegment \/ updateSegment \/ RemoveSegment) =>
    /\ motionDirty' = TRUE
    /\ UNCHANGED <<motionData, camData, camDirty>>
    /\ replacedArray' = appSegments

\* a change of camParams
ParamEditEffect ==
  ChangeCamParams =>
    /\ camDirty' = TRUE
    /\ UNCHANGED <<motionDirty, motionData, camData>>

\* C25: any edit of the segment list (addSegment, updateSegment,
\* removeSegment) sets motionDirty to true and leaves motionData, camData
\* and camDirty unchanged; any change of camParams sets camDirty to true
\* and leaves motionDirty, motionData and camData unchanged; the edit
\* handlers build a new array and never mutate the previous one.
C25_EditsMarkDirty == [][SegmentEditEffect /\ ParamEditEffect]_vars

\* a row was appended and then the first row removed, on a clean profile:
\* the replaced array still has the appended row and its first row
C25_Witness ==
  /\ mounted
  /\ edits = 2
  /\ motionDirty
  /\ ~ camDirty
  /\ Len(appSegments) = Len(InitialSegments)
  /\ Len(replacedArray) = Len(InitialSegments) + 1
  /\ replacedArray[1] = InitialSegments[1]
  /\ appSegments[1] = InitialSegments[2]
  /\ appSegments[Len(appSegments)].id \in NewIds
  /\ motionData = calculateMotion(InitialSegments, AppStepSize)

\* ------------------------------------------------------------------ C28
\* an animation frame that ticks leaves currentTheta strictly inside
TickInside ==
  (Frame /\ currentTheta' # currentTheta) =>
    (- FullTurn < currentTheta' /\ currentTheta' < FullTurn)

\* C28: from currentTheta = 0, after any sequence of animation ticks (CW
\* adds 1, CCW subtracts 1, wrap at +/-360, the sense may change mid-run),
\* slider changes (values in [0, 360]) and resets, currentTheta stays
\* within [-360, 360], and right after every tick it is strictly inside.
C28_ThetaInRange ==
  /\ [](- FullTurn <= currentTheta /\ currentTheta <= FullTurn)
  /\ [][TickInside]_vars

\* playing counter-clockwise, one tick before the wrap at -360, after the
\* sense was changed from the initial CW
C28_Witness ==
  /\ isPlaying
  /\ frames = <<"CCW">>
  /\ activeParams.rotation = "CCW"
  /\ currentTheta = - (FullTurn - DegTicks)

\* ------------------------------------------------------------------ C29
\* while paused, currentTheta is changed by the slider or reset only
PausedChange ==
  (~ isPlaying /\ currentTheta' # currentTheta) => (Reset \/ Slider)

EvenlySampled(data) ==
  /\ Len(data) >= 2
  /\ \A k \in 1..Len(data) :
       data[k].theta * (Len(data) - 1) = (k - 1) * FullTurn

\* C30: for a non-empty data sequence sampled evenly over [0, 360]
\* inclusive and any theta (negative, above 360, exactly 360) both lookup
\* indices of getInterpolatedLift are within 0..data.length-1, and at theta
\* equal to the angle of sample k (0 <= theta_k < 360) the result is
\* exactly s_k.
C30_LookupInBounds ==
  (pc = "lifted" /\ Len(camData) > 0) =>
    /\ lift.idx1 \in 0..(Len(camData) - 1)
    /\ lift.idx2 \in 0..(Len(camData) - 1)
    /\ EvenlySampled(camData) =>
         \A k \in 1..Len(camData) :
           (camData[k].theta = lift.theta /\ lift.theta < FullTurn)
             => lift.value = camData[k].s

\* a lookup in the App's profile at the angle of a sample of its lifting
\* part: the lower index is that sample and the value is its lift
C30_Witness ==
  /\ pc = "lifted"
  /\ Len(camData) = SampleCount(AppStepSize)
  /\ EvenlySampled(camData)
  /\ lift.theta > 0
  /\ lift.theta < FullTurn
  /\ camData[lift.idx1 + 1].theta = lift.theta
  /\ camData[lift.idx1 + 1].s # 0
  /\ lift.value = camData[lift.idx1 + 1].s

====
